---- MODULE Spec2Model ----
(***************************************************************************)
(* State-machine model of the portfolio CMS backend (src/main.py).         *)
(*                                                                         *)
(* The state is the document store: one variable per collection, each a    *)
(* set of documents (records carrying "_id"), plus the wall clock and the  *)
(* response of the request handled last.  Every action is one HTTP request *)
(* (or the startup hook) handled from its first line to its response.      *)
(*                                                                         *)
(* The timestamps created_at are written by the handlers and read by none  *)
(* of them; the documents of the model do not carry them.                  *)
(*                                                                         *)
(* The handlers are synchronous functions, which the framework runs on a   *)
(* pool of worker threads: requests overlap, and a handler that makes two  *)
(* store calls can be overtaken between them.  inflight holds the signup   *)
(* requests that have made their first store call and not yet the second.  *)
(***************************************************************************)
EXTENDS Integers, Sequences, FiniteSets, TLC

VARIABLES user, session, category, client, project, testimonial, setting,
          now, resp, inflight

cms   == <<category, client, project, testimonial, setting>>
store == <<user, session, category, client, project, testimonial, setting>>
vars  == <<user, session, category, client, project, testimonial, setting,
           now, resp, inflight>>

----------------------------------------------------------------------------
(* Bounds of the model *)

MaxUsers == 2
MaxSessions == 2
MaxDocs == 2
MaxTime == 8
MaxRequests == 2

(* Program constants *)

SessionDays == 7

----------------------------------------------------------------------------
(* Values *)

None == "None"

NoToken == -1

Emails == {"a@x.com", "b@x.com"}

ADMIN_EMAIL == "a@x.com"

Passwords == {"p", "bad"}

Tokens == 1..MaxSessions

NoHeader == [scheme |-> "", cred |-> NoToken]

Headers ==
  {NoHeader, [scheme |-> "basic", cred |-> 1]}
    \cup {[scheme |-> "Bearer", cred |-> t] : t \in Tokens}

Lower(s) == IF s = "Bearer" THEN "bearer" ELSE s

----------------------------------------------------------------------------
(* Document store adapter: create / read(filter) / update(partial) /       *)
(* delete on a collection, a set of documents keyed by "_id".              *)

Ids(coll) == {d["_id"] : d \in coll}

FreshId(coll) == CHOOSE i \in 1..(Cardinality(coll) + 1) : i \notin Ids(coll)

Matches(d, filt) ==
  \A k \in DOMAIN filt : k \in DOMAIN d /\ d[k] = filt[k]

get_documents(coll, filt) == {d \in coll : Matches(d, filt)}

First(docs) == CHOOSE d \in docs : \A e \in docs : d["_id"] <= e["_id"]

create_document(coll, data) == coll \cup {("_id" :> FreshId(coll)) @@ data}

Patched(d, patch) ==
  [k \in DOMAIN d \cup DOMAIN patch |->
     IF k \in DOMAIN patch THEN patch[k] ELSE d[k]]

update_ok(coll, id, patch) ==
  \E d \in coll : d["_id"] = id /\ Patched(d, patch) # d

update_document(coll, id, patch) ==
  {IF d["_id"] = id THEN Patched(d, patch) ELSE d : d \in coll}

delete_ok(coll, id) == id \in Ids(coll)

delete_document(coll, id) == {d \in coll : d["_id"] # id}

----------------------------------------------------------------------------
(* Helpers of main.py *)

Without(d, k) == [f \in DOMAIN d \ {k} |-> d[f]]

serialize(d) ==
  IF "_id" \in DOMAIN d
    THEN ("id" :> d["_id"]) @@ Without(d, "_id")
    ELSE d

Hash(pw) == <<"pbkdf2-sha256", pw>>

Verify(pw, h) == h = Hash(pw)

_get_token_from_request(h) ==
  IF h = NoHeader THEN NoToken
  ELSE IF Lower(h.scheme) = "bearer" THEN h.cred
  ELSE NoToken

(* The exception classes the handler "except Exception" catches: every     *)
(* subclass of Exception, HTTPException among them.                        *)
CaughtByExceptMutant(exc) == exc \in {"ValueError", "TypeError"}

CaughtByExcept(exc) == exc \in {"HTTPException", "ValueError", "TypeError"}

(* The expiry test of get_current_user: the comparison raises the          *)
(* HTTPException inside the try block, so the request is rejected only     *)
(* when the except clause lets that exception through.                     *)
SessionExpired(sess) == sess.expires_at < now

ExpiryRejects(sess) ==
  SessionExpired(sess) /\ ~CaughtByExcept("HTTPException")

Denied(code) == [status |-> code, user |-> {}]

get_current_user(h) ==
  LET token == _get_token_from_request(h)
      sess_docs == get_documents(session, [token |-> token])
  IN  IF token = NoToken THEN Denied(401)
      ELSE IF sess_docs = {} THEN Denied(401)
      ELSE IF ExpiryRejects(First(sess_docs)) THEN Denied(401)
      ELSE LET user_docs ==
                 get_documents(user, [_id |-> First(sess_docs).user_id])
           IN  IF user_docs = {} THEN Denied(401)
               ELSE [status |-> 200,
                     user |-> {Without(serialize(First(user_docs)),
                                       "password_hash")}]

IsAdminUserMutant(u) == u.is_admin

IsAdminUser(u) == u.is_admin /\ u.is_verified

(* The gate deciding from the flags copied into the session row at login *)
get_current_adminMutant(h) ==
  LET r == get_current_user(h)
      sess_docs == get_documents(session,
                                 [token |-> _get_token_from_request(h)])
  IN  IF r.status # 200 THEN r
      ELSE IF ~IsAdminUser(First(sess_docs)) THEN Denied(403)
      ELSE r

get_current_admin(h) ==
  LET r == get_current_user(h)
  IN  IF r.status # 200 THEN r
      ELSE IF ~(\A u \in r.user : IsAdminUser(u)) THEN Denied(403)
      ELSE r

----------------------------------------------------------------------------
(* Responses *)

Response(op, code, body) == [op |-> op, status |-> code, body |-> body]

Init ==
  /\ user = {}
  /\ session = {}
  /\ category = {}
  /\ client = {}
  /\ project = {}
  /\ testimonial = {}
  /\ setting = {}
  /\ now = 0
  /\ resp = Response("start", 200, {})
  /\ inflight = {}

----------------------------------------------------------------------------
(* Startup hook *)

bootstrap_admin ==
  LET docs == get_documents(user, [email |-> ADMIN_EMAIL])
  IN  /\ user' = IF docs = {} THEN user
                 ELSE update_document(user, First(docs)["_id"],
                                      [is_admin |-> TRUE, is_verified |-> TRUE])
      /\ resp' = Response("startup", 200, {})
      /\ UNCHANGED <<session, cms, now, inflight>>

(* The clock advances by d days *)
Tick(d) ==
  /\ now + d <= MaxTime
  /\ now' = now + d
  /\ resp' = Response("tick", 200, {})
  /\ UNCHANGED <<store, inflight>>

(* A request that ends in an error response *)
Reject(op, code) ==
  /\ resp' = Response(op, code, {})
  /\ UNCHANGED <<store, now, inflight>>

----------------------------------------------------------------------------
(* Auth & users *)

UserOut(d) ==
  [id |-> d["_id"], name |-> d.name, email |-> d.email,
   is_admin |-> FALSE, is_verified |-> FALSE]

NewUser(name, email, pw) ==
  [name |-> name, email |-> email, password_hash |-> Hash(pw),
   is_admin |-> FALSE, is_verified |-> FALSE]

ExistingMutant(email) == {}

Existing(email) == get_documents(user, [email |-> email])

signup(name, email, pw) ==
  LET existing == Existing(email)
  IN  IF existing # {}
        THEN /\ resp' = Response("signup", 400, {})
             /\ UNCHANGED <<store, now, inflight>>
        ELSE /\ Cardinality(user) < MaxUsers
             /\ user' = create_document(user, NewUser(name, email, pw))
             /\ resp' = Response("signup", 200,
                   {UserOut(d) : d \in user' \ user})
             /\ UNCHANGED <<session, cms, now, inflight>>

(* Signup, one store call at a time.  Request r runs the email lookup: a  *)
(* stored row ends the request with 400; otherwise the request goes on     *)
(* towards its insert.                                                     *)
signup_check(r, name, email, pw) ==
  /\ \A q \in inflight : q.req # r
  /\ IF Existing(email) # {}
       THEN /\ resp' = Response("signup", 400, {})
            /\ UNCHANGED <<store, now, inflight>>
       ELSE /\ inflight' = inflight \cup
                  {[req |-> r, name |-> name, email |-> email, pw |-> pw]}
            /\ UNCHANGED <<store, now, resp>>

(* The insert under one transaction with the lookup: the email is looked   *)
(* up again when the row is written.                                       *)
signup_insertMutant(r) ==
  \E q \in inflight :
    /\ q.req = r
    /\ inflight' = inflight \ {q}
    /\ IF Existing(q.email) # {}
         THEN /\ resp' = Response("signup", 400, {})
              /\ UNCHANGED <<store, now>>
         ELSE /\ Cardinality(user) < MaxUsers
              /\ user' = create_document(user, NewUser(q.name, q.email, q.pw))
              /\ resp' = Response("signup", 200,
                    {UserOut(d) : d \in user' \ user})
              /\ UNCHANGED <<session, cms, now>>

(* Request r, past its lookup, hashes the password and inserts the row *)
signup_insert(r) ==
  \E q \in inflight :
    /\ q.req = r
    /\ Cardinality(user) < MaxUsers
    /\ inflight' = inflight \ {q}
    /\ user' = create_document(user, NewUser(q.name, q.email, q.pw))
    /\ resp' = Response("signup", 200, {UserOut(d) : d \in user' \ user})
    /\ UNCHANGED <<session, cms, now>>

NewToken == Cardinality(session) + 1

SessionDoc(token, u) ==
  [token |-> token, user_id |-> u["_id"],
   is_admin |-> u.is_admin, is_verified |-> u.is_verified,
   expires_at |-> now + SessionDays]

login(email, pw) ==
  LET docs == get_documents(user, [email |-> email])
  IN  IF docs = {} \/ ~Verify(pw, First(docs).password_hash)
        THEN /\ resp' = Response("login", 401, {})
             /\ UNCHANGED <<store, now, inflight>>
        ELSE /\ Cardinality(session) < MaxSessions
             /\ session' = create_document(session,
                                           SessionDoc(NewToken, First(docs)))
             /\ resp' = Response("login", 200,
                   {[token |-> NewToken, user_id |-> First(docs)["_id"]]})
             /\ UNCHANGED <<user, cms, now, inflight>>

me(h) ==
  LET r == get_current_user(h)
  IN  /\ resp' = Response("me", r.status, r.user)
      /\ UNCHANGED <<store, now, inflight>>

list_users(h) ==
  LET g == get_current_admin(h)
  IN  /\ resp' = IF g.status # 200 THEN Response("list_users", g.status, {})
                 ELSE Response("list_users", 200,
                        {Without(serialize(d), "password_hash") : d \in user})
      /\ UNCHANGED <<store, now, inflight>>

set_admin(h, doc_id, payload) ==
  LET g == get_current_admin(h)
      allowed == payload
  IN  IF g.status # 200
        THEN /\ resp' = Response("set_admin", g.status, {})
             /\ UNCHANGED <<store, now, inflight>>
      ELSE IF DOMAIN allowed = {}
        THEN /\ resp' = Response("set_admin", 400, {})
             /\ UNCHANGED <<store, now, inflight>>
      ELSE IF ~update_ok(user, doc_id, allowed)
        THEN /\ resp' = Response("set_admin", 404, {})
             /\ UNCHANGED <<store, now, inflight>>
      ELSE /\ user' = update_document(user, doc_id, allowed)
           /\ resp' = Response("set_admin", 200, {})
           /\ UNCHANGED <<session, cms, now, inflight>>

----------------------------------------------------------------------------
(* Public read and submit endpoints *)

ListFilterLoose(h, client_name, include_all) ==
  LET admin == include_all /\ get_current_user(h).status = 200
  IN  IF admin
        THEN IF client_name # None THEN [company |-> client_name] ELSE <<>>
        ELSE IF client_name # None
               THEN [status |-> "approved", company |-> client_name]
               ELSE [status |-> "approved"]

ListFilterReplaced(h, client_name, include_all) ==
  LET admin == include_all /\ get_current_admin(h).status = 200
                           /\ get_current_admin(h).user # {}
  IN  IF admin
        THEN IF client_name # None THEN [company |-> client_name] ELSE <<>>
        ELSE IF client_name # None
               THEN [company |-> client_name]
               ELSE [status |-> "approved"]

ListFilter(h, client_name, include_all) ==
  LET admin == include_all /\ get_current_admin(h).status = 200
                           /\ get_current_admin(h).user # {}
  IN  IF admin
        THEN IF client_name # None THEN [company |-> client_name] ELSE <<>>
        ELSE IF client_name # None
               THEN [status |-> "approved", company |-> client_name]
               ELSE [status |-> "approved"]

list_testimonials(h, client_name, include_all) ==
  LET docs == get_documents(testimonial,
                            ListFilter(h, client_name, include_all))
  IN  /\ resp' = Response("list_testimonials", 200,
                          {serialize(d) : d \in docs})
      /\ UNCHANGED <<store, now, inflight>>

(* A JSON value of the request body before validation *)
JInt(i) == [t |-> "int", i |-> i, s |-> ""]
JStr(s) == [t |-> "str", i |-> 0, s |-> s]
JNull == [t |-> "null", i |-> 0, s |-> ""]

(* PublicTestimonialIn: rating is Optional[int]; the fields the model does *)
(* not declare (a caller's own "status") are dropped by the validation.    *)
ValidOptionalInt(v) == v.t \in {"int", "null"}

Min(a, b) == IF a < b THEN a ELSE b
Max(a, b) == IF a > b THEN a ELSE b

Clamp(v) == IF v.t = "null" THEN 5 ELSE Max(0, Min(5, v.i))

SubmitStatusMutant(p) == IF p.status # None THEN p.status ELSE "pending"

SubmitStatus(p) == "pending"

SubmitDoc(p) ==
  [name |-> p.name, role |-> p.role, company |-> p.company,
   rating |-> Clamp(p.rating), quote |-> p.quote, status |-> SubmitStatus(p)]

submit_testimonial(p) ==
  IF ~ValidOptionalInt(p.rating)
    THEN Reject("submit_testimonial", 422)
    ELSE /\ Cardinality(testimonial) < MaxDocs
         /\ testimonial' = create_document(testimonial, SubmitDoc(p))
         /\ resp' = Response("submit_testimonial", 200,
               {[id |-> d["_id"], status |-> "pending"] :
                  d \in testimonial' \ testimonial})
         /\ UNCHANGED <<user, session, category, client, project, setting, now, inflight>>

----------------------------------------------------------------------------
(* Admin mutations *)

Created(op, new, old) == Response(op, 200, {[id |-> d["_id"]] : d \in new \ old})

create_category(h, p) ==
  LET g == get_current_admin(h)
  IN  IF g.status # 200 THEN Reject("create_category", g.status)
      ELSE /\ Cardinality(category) < MaxDocs
           /\ category' = create_document(category, p)
           /\ resp' = Created("create_category", category', category)
           /\ UNCHANGED <<user, session, client, project, testimonial, setting, now, inflight>>

create_client(h, p) ==
  LET g == get_current_admin(h)
  IN  IF g.status # 200 THEN Reject("create_client", g.status)
      ELSE /\ Cardinality(client) < MaxDocs
           /\ client' = create_document(client, p)
           /\ resp' = Created("create_client", client', client)
           /\ UNCHANGED <<user, session, category, project, testimonial, setting, now, inflight>>

create_project(h, p) ==
  LET g == get_current_admin(h)
  IN  IF g.status # 200 THEN Reject("create_project", g.status)
      ELSE /\ Cardinality(project) < MaxDocs
           /\ project' = create_document(project, p)
           /\ resp' = Created("create_project", project', project)
           /\ UNCHANGED <<user, session, category, client, testimonial, setting, now, inflight>>

TestimonialData(p) ==
  IF p.status = None \/ p.status = ""
    THEN [p EXCEPT !.status = "approved"]
    ELSE p

create_testimonial(h, p) ==
  LET g == get_current_admin(h)
  IN  IF g.status # 200 THEN Reject("create_testimonial", g.status)
      ELSE /\ Cardinality(testimonial) < MaxDocs
           /\ testimonial' = create_document(testimonial, TestimonialData(p))
           /\ resp' = Created("create_testimonial", testimonial', testimonial)
           /\ UNCHANGED <<user, session, category, client, project, setting, now, inflight>>

create_setting(h, p) ==
  LET g == get_current_admin(h)
  IN  IF g.status # 200 THEN Reject("create_setting", g.status)
      ELSE /\ Cardinality(setting) < MaxDocs
           /\ setting' = create_document(setting, p)
           /\ resp' = Created("create_setting", setting', setting)
           /\ UNCHANGED <<user, session, category, client, project, testimonial, now, inflight>>

update_categoryMutant(h, doc_id, payload) ==
  LET g == get_current_admin(h)
  IN  IF g.status # 200 THEN Reject("update_category", g.status)
      ELSE /\ category' = update_document(category, doc_id, payload)
           /\ resp' = Response("update_category", 200, {})
           /\ UNCHANGED <<user, session, client, project, testimonial, setting, now, inflight>>

update_category(h, doc_id, payload) ==
  LET g == get_current_admin(h)
  IN  IF g.status # 200 THEN Reject("update_category", g.status)
      ELSE IF ~update_ok(category, doc_id, payload)
        THEN Reject("update_category", 404)
      ELSE /\ category' = update_document(category, doc_id, payload)
           /\ resp' = Response("update_category", 200, {})
           /\ UNCHANGED <<user, session, client, project, testimonial, setting, now, inflight>>

update_client(h, doc_id, payload) ==
  LET g == get_current_admin(h)
  IN  IF g.status # 200 THEN Reject("update_client", g.status)
      ELSE IF ~update_ok(client, doc_id, payload)
        THEN Reject("update_client", 404)
      ELSE /\ client' = update_document(client, doc_id, payload)
           /\ resp' = Response("update_client", 200, {})
           /\ UNCHANGED <<user, session, category, project, testimonial, setting, now, inflight>>

update_project(h, doc_id, payload) ==
  LET g == get_current_admin(h)
  IN  IF g.status # 200 THEN Reject("update_project", g.status)
      ELSE IF ~update_ok(project, doc_id, payload)
        THEN Reject("update_project", 404)
      ELSE /\ project' = update_document(project, doc_id, payload)
           /\ resp' = Response("update_project", 200, {})
           /\ UNCHANGED <<user, session, category, client, testimonial, setting, now, inflight>>

update_testimonial(h, doc_id, payload) ==
  LET g == get_current_admin(h)
  IN  IF g.status # 200 THEN Reject("update_testimonial", g.status)
      ELSE IF ~update_ok(testimonial, doc_id, payload)
        THEN Reject("update_testimonial", 404)
      ELSE /\ testimonial' = update_document(testimonial, doc_id, payload)
           /\ resp' = Response("update_testimonial", 200, {})
           /\ UNCHANGED <<user, session, category, client, project, setting, now, inflight>>

update_setting(h, doc_id, payload) ==
  LET g == get_current_admin(h)
  IN  IF g.status # 200 THEN Reject("update_setting", g.status)
      ELSE IF ~update_ok(setting, doc_id, payload)
        THEN Reject("update_setting", 404)
      ELSE /\ setting' = update_document(setting, doc_id, payload)
           /\ resp' = Response("update_setting", 200, {})
           /\ UNCHANGED <<user, session, category, client, project, testimonial, now, inflight>>

delete_category(h, doc_id) ==
  LET g == get_current_admin(h)
  IN  IF g.status # 200 THEN Reject("delete_category", g.status)
      ELSE IF ~delete_ok(category, doc_id)
        THEN Reject("delete_category", 404)
      ELSE /\ category' = delete_document(category, doc_id)
           /\ resp' = Response("delete_category", 200, {})
           /\ UNCHANGED <<user, session, client, project, testimonial, setting, now, inflight>>

delete_client(h, doc_id) ==
  LET g == get_current_admin(h)
  IN  IF g.status # 200 THEN Reject("delete_client", g.status)
      ELSE IF ~delete_ok(client, doc_id)
        THEN Reject("delete_client", 404)
      ELSE /\ client' = delete_document(client, doc_id)
           /\ resp' = Response("delete_client", 200, {})
           /\ UNCHANGED <<user, session, category, project, testimonial, setting, now, inflight>>

delete_project(h, doc_id) ==
  LET g == get_current_admin(h)
  IN  IF g.status # 200 THEN Reject("delete_project", g.status)
      ELSE IF ~delete_ok(project, doc_id)
        THEN Reject("delete_project", 404)
      ELSE /\ project' = delete_document(project, doc_id)
           /\ resp' = Response("delete_project", 200, {})
           /\ UNCHANGED <<user, session, category, client, testimonial, setting, now, inflight>>

delete_testimonial(h, doc_id) ==
  LET g == get_current_admin(h)
  IN  IF g.status # 200 THEN Reject("delete_testimonial", g.status)
      ELSE IF ~delete_ok(testimonial, doc_id)
        THEN Reject("delete_testimonial", 404)
      ELSE /\ testimonial' = delete_document(testimonial, doc_id)
           /\ resp' = Response("delete_testimonial", 200, {})
           /\ UNCHANGED <<user, session, category, client, project, setting, now, inflight>>

----------------------------------------------------------------------------
(* Seed *)

cat_items ==
  << [key |-> "uiux", title |-> "UI/UX", description |-> "Interfaces and flows"],
     [key |-> "brand", title |-> "Brand", description |-> "Identity and guidelines"] >>

client_items ==
  << [name |-> "VoltPay", category_key |-> "uiux", description |-> "Fintech payments",
      logo_url |-> "https://logo.clearbit.com/visa.com"],
     [name |-> "BloomCo", category_key |-> "brand", description |-> "D2C beauty",
      logo_url |-> "https://logo.clearbit.com/glossier.com"],
     [name |-> "Secura", category_key |-> "uiux", description |-> "Security SaaS",
      logo_url |-> "https://logo.clearbit.com/okta.com"],
     [name |-> "Vitality", category_key |-> "uiux", description |-> "HealthTech",
      logo_url |-> "https://logo.clearbit.com/fitbit.com"],
     [name |-> "Northbeam", category_key |-> "brand", description |-> "SaaS analytics",
      logo_url |-> "https://logo.clearbit.com/datadog.com"] >>

testimonial_items ==
  << [name |-> "A. Santoso", role |-> "Product Manager", company |-> "VoltPay",
      rating |-> 5, quote |->
      "Raffi quickly translated complex requirements into clean, intuitive flows. The sprint velocity went up 20%.",
      status |-> "approved"],
     [name |-> "N. Wijaya", role |-> "Marketing Lead", company |-> "BloomCo",
      rating |-> 5, quote |->
      "Our campaign hit record CTR thanks to a cohesive visual system and analytics-driven adjustments.",
      status |-> "approved"],
     [name |-> "J. Park", role |-> "Security Lead", company |-> "Secura",
      rating |-> 4, quote |->
      "His blue-team mindset and SIEM knowledge helped us tighten detections without slowing delivery.",
      status |-> "approved"],
     [name |-> "M. Rivera", role |-> "CTO", company |-> "Vitality",
      rating |-> 5, quote |->
      "From idea to production in three weeks. Clear communication and thoughtful trade-offs throughout.",
      status |-> "approved"],
     [name |-> "K. Nguyen", role |-> "Founder", company |-> "Northbeam",
      rating |-> 5, quote |->
      "The design system and motion guidelines elevated our brand and sped up feature delivery for the team.",
      status |-> "approved"] >>

ui_setting ==
  [key |-> "ui", marquee_a_seconds |-> "30.0", marquee_b_seconds |-> "28.0",
   glow_intensity |-> "0.25", parallax_intensity |-> "8.0"]

(* d.get(f) for every f of fields *)
KeyOf(d, fields) ==
  [f \in fields |-> IF f \in DOMAIN d THEN d[f] ELSE None]

Keys(coll, fields) == {KeyOf(d, fields) : d \in coll}

MissingMutant(item, fields, existing) == TRUE

Missing(item, fields, existing) == KeyOf(item, fields) \notin existing

RECURSIVE SeedInto(_, _, _, _)
SeedInto(coll, items, fields, existing) ==
  IF items = <<>> THEN coll
  ELSE SeedInto(IF Missing(Head(items), fields, existing)
                  THEN create_document(coll, Head(items))
                  ELSE coll,
                Tail(items), fields, existing)

seed_data(h) ==
  LET g == get_current_admin(h)
  IN  IF g.status # 200 THEN Reject("seed_data", g.status)
      ELSE /\ category' = SeedInto(category, cat_items, {"key"},
                                   Keys(category, {"key"}))
           /\ client' = SeedInto(client, client_items, {"name"},
                                 Keys(client, {"name"}))
           /\ testimonial' = SeedInto(testimonial, testimonial_items,
                                      {"name", "company"},
                                      Keys(testimonial, {"name", "company"}))
           /\ setting' = SeedInto(setting, <<ui_setting>>, {"key"},
                                  Keys(setting, {"key"}))
           /\ resp' = Response("seed_data", 200, {})
           /\ UNCHANGED <<user, session, project, now, inflight>>

----------------------------------------------------------------------------
(* Request inputs *)

FlagSets == {{}, {"is_admin"}, {"is_verified"}}

DocIds == 1..MaxDocs

CategoryInputs ==
  { [key |-> "uiux", title |-> "UI/UX", description |-> "Interfaces and flows"],
    [key |-> "photo", title |-> "Photography", description |-> None] }

CategoryPatches == { [title |-> "Design"], [key |-> "brand"] }

ClientInputs ==
  { [name |-> "VoltPay", category_key |-> "uiux", description |-> None,
     logo_url |-> None] }

ClientPatches == { [category_key |-> "brand"] }

ProjectInputs ==
  { [client_name |-> "VoltPay", title |-> "Wallet app", tag |-> "UI/UX",
     description |-> None, images |-> None, link |-> None] }

ProjectPatches == { [title |-> "Wallet redesign"] }

TestimonialInputs ==
  { [name |-> "A. Santoso", role |-> "Product Manager", quote |-> "Great",
     company |-> "VoltPay", rating |-> 5, logo_url |-> None, status |-> s] :
       s \in {None, "pending"} }

TestimonialPatches == { [status |-> "approved"], [status |-> "pending"] }

SettingInputs == { ui_setting }

SettingPatches == { [glow_intensity |-> "0.5"] }

Companies == {None, "VoltPay"}

Ratings == {JNull, JStr("abc"), JInt(-3), JInt(0), JInt(3), JInt(5), JInt(7)}

SubmitInputs ==
  { [name |-> "Visitor", role |-> None, company |-> c, rating |-> r,
     quote |-> "Nice work", status |-> s] :
       c \in Companies, r \in Ratings, s \in {None, "approved"} }

----------------------------------------------------------------------------
(* Specifications *)

AuthActions(emails) ==
  \/ bootstrap_admin
  \/ \E e \in emails : signup("A", e, "p")
  \/ \E e \in emails, pw \in Passwords : login(e, pw)

(* The signup requests in flight at one time *)
Requests == 1..MaxRequests

(* Overlapping signups: the lookup and the insert of a request are         *)
(* separate steps, and the steps of other requests can run between them.   *)
ConcurrentSignup ==
  \/ \E r \in Requests, e \in Emails : signup_check(r, "A", e, "p")
  \/ \E r \in Requests : signup_insert(r)

(* The user ids the verify-admin requests of the gated specifications name *)
GateUserIds == {1}

SetAdminAction(ids) ==
  \E h \in Headers, id \in ids, S \in FlagSets :
    \E payload \in [S -> BOOLEAN] : set_admin(h, id, payload)

TestimonialActions ==
  \/ \E h \in Headers, p \in TestimonialInputs : create_testimonial(h, p)
  \/ \E h \in Headers, id \in DocIds, p \in TestimonialPatches :
       update_testimonial(h, id, p)
  \/ \E h \in Headers, id \in DocIds : delete_testimonial(h, id)

CategoryActions ==
  \/ \E h \in Headers, p \in CategoryInputs : create_category(h, p)
  \/ \E h \in Headers, id \in DocIds, p \in CategoryPatches :
       update_category(h, id, p)
  \/ \E h \in Headers, id \in DocIds : delete_category(h, id)

ClientActions ==
  \/ \E h \in Headers, p \in ClientInputs : create_client(h, p)
  \/ \E h \in Headers, id \in DocIds, p \in ClientPatches :
       update_client(h, id, p)
  \/ \E h \in Headers, id \in DocIds : delete_client(h, id)

ProjectActions ==
  \/ \E h \in Headers, p \in ProjectInputs : create_project(h, p)
  \/ \E h \in Headers, id \in DocIds, p \in ProjectPatches :
       update_project(h, id, p)
  \/ \E h \in Headers, id \in DocIds : delete_project(h, id)

SettingActions ==
  \/ \E h \in Headers, p \in SettingInputs : create_setting(h, p)
  \/ \E h \in Headers, id \in DocIds, p \in SettingPatches :
       update_setting(h, id, p)

PublicActions ==
  \/ \E p \in SubmitInputs : submit_testimonial(p)
  \/ \E h \in Headers, c \in Companies, a \in BOOLEAN :
       list_testimonials(h, c, a)

Next ==
  \/ AuthActions(Emails)
  \/ \E h \in Headers : me(h)
  \/ \E h \in Headers : list_users(h)
  \/ SetAdminAction(1..MaxUsers)
  \/ \E d \in {1, SessionDays} : Tick(d)
  \/ PublicActions
  \/ CategoryActions
  \/ ClientActions
  \/ ProjectActions
  \/ TestimonialActions
  \/ SettingActions
  \/ \E h \in Headers : seed_data(h)
  \/ ConcurrentSignup

Spec == Init /\ [][Next]_vars

(* Signups that overlap, and the logins that follow them *)
NextRace ==
  \/ \E r \in Requests, e \in Emails : signup_check(r, "A", e, "p")
  \/ \E r \in Requests : signup_insert(r)
  \/ \E e \in Emails, pw \in Passwords : login(e, pw)

SpecRace == Init /\ [][NextRace]_vars

(* Sessions and the clock: signup, login, caller resolution, time *)
NextAuth ==
  \/ AuthActions(Emails)
  \/ \E h \in Headers : me(h)
  \/ \E d \in {1, SessionDays} : Tick(d)

SpecAuth == Init /\ [][NextAuth]_vars

(* The CMS store holds fewer than MaxDocs documents: the exploration of    *)
(* the admin mutations starts from such stores only.                       *)
TotalDocs ==
  Cardinality(category) + Cardinality(client) + Cardinality(project)
    + Cardinality(testimonial) + Cardinality(setting)

CmsSmall == TotalDocs < MaxDocs

(* The admin gate in front of every protected endpoint *)
NextGate ==
  \/ AuthActions({ADMIN_EMAIL})
  \/ SetAdminAction(GateUserIds)
  \/ CmsSmall /\ CategoryActions
  \/ CmsSmall /\ ClientActions
  \/ CmsSmall /\ ProjectActions
  \/ CmsSmall /\ TestimonialActions
  \/ CmsSmall /\ SettingActions
  \/ CmsSmall /\ \E h \in Headers : seed_data(h)

SpecGate == Init /\ [][NextGate]_vars

(* Testimonials: public intake, moderation and the visibility filter *)
PlainSubmitInputs == {p \in SubmitInputs : p.rating = JNull /\ p.status = None}

NextTestimonial ==
  \/ AuthActions({ADMIN_EMAIL})
  \/ SetAdminAction(GateUserIds)
  \/ TestimonialActions
  \/ \E p \in PlainSubmitInputs : submit_testimonial(p)
  \/ \E h \in Headers, c \in Companies, a \in BOOLEAN :
       list_testimonials(h, c, a)

SpecTestimonial == Init /\ [][NextTestimonial]_vars

(* Public intake alone, over every payload *)
SpecSubmit == Init /\ [][PublicActions]_vars

(* The demo-data loader next to the category endpoints *)
NextSeed ==
  \/ AuthActions({ADMIN_EMAIL})
  \/ CmsSmall /\ CategoryActions
  \/ CmsSmall /\ ClientActions
  \/ CmsSmall /\ TestimonialActions
  \/ CmsSmall /\ SettingActions
  \/ CmsSmall /\ \E p \in PlainSubmitInputs : submit_testimonial(p)
  \/ \E h \in Headers, id \in DocIds : delete_category(h, id)
  \/ \E h \in Headers : seed_data(h)

SpecSeed == Init /\ [][NextSeed]_vars

----------------------------------------------------------------------------
(* Properties *)

BearerToken(h, t) == h.scheme = "Bearer" /\ h.cred = t

(* The users a request header resolves to: the user row referenced by the  *)
(* session row whose token the header carries.                             *)
Resolves(h, u) ==
  \E s \in session : BearerToken(h, s.token) /\ u["_id"] = s.user_id

UniqueEmails == \A u1, u2 \in user : u1.email = u2.email => u1 = u2

(* C6: signups handled one at a time: a signup with the email of a stored  *)
(* user answers 400 and leaves the user collection as it was; a signup     *)
(* with a new email adds exactly one row, with is_admin and is_verified    *)
(* false; so no two user rows ever share an email.                         *)
C6_SequentialSignup ==
  /\ []UniqueEmails
  /\ [][\A e \in Emails :
          signup("A", e, "p") =>
            IF \E u \in user : u.email = e
              THEN resp'.status = 400 /\ user' = user
              ELSE /\ resp'.status = 200
                   /\ \E d \in user' :
                        /\ d \notin user
                        /\ user' = user \cup {d}
                        /\ d.email = e
                        /\ ~d.is_admin
                        /\ ~d.is_verified]_vars

C6_Witness ==
  resp.op = "signup" /\ resp.status = 400 /\ Cardinality(user) = 2

(* C10: a request whose bearer token matches a session row, expired or     *)
(* not, and whose user row exists is authenticated as that user: an        *)
(* expired session is never rejected.                                      *)
C10_ExpiredSessionAuthenticates ==
  [][\A h \in Headers :
       me(h) =>
         \A u \in user :
           Resolves(h, u) =>
             /\ resp'.status = 200
             /\ resp'.body = {Without(serialize(u), "password_hash")}]_vars

C10_Witness ==
  /\ resp.op = "me"
  /\ resp.status = 200
  /\ session # {}
  /\ \A s \in session : s.expires_at < now

(* C11: signup looks the email up and inserts the row in two store calls.  *)
(* A request that found the email unused inserts its row and answers 200   *)
(* whatever was inserted since its lookup: of two requests with the same   *)
(* unused email that both look it up before either inserts, both answer    *)
(* 200, and the user collection then holds two rows with that email.       *)
C11_RacingSignups ==
  [][\A q \in inflight :
       signup_insert(q.req) =>
         /\ resp'.status = 200
         /\ \E d \in user' :
              d \notin user /\ user' = user \cup {d} /\ d.email = q.email
         /\ ((\E u \in user : u.email = q.email) => ~UniqueEmails')]_vars

C11_Witness ==
  /\ resp.op = "signup"
  /\ resp.status = 200
  /\ inflight = {}
  /\ ~UniqueEmails

NoBearer(h) == h.scheme # "Bearer"

NonAdmin(h) ==
  \E u \in user : Resolves(h, u) /\ ~(u.is_admin /\ u.is_verified)

AdminOK(h) ==
  \E u \in user : Resolves(h, u) /\ u.is_admin /\ u.is_verified

AdminOps ==
  {"create_category", "create_client", "create_project", "create_testimonial",
   "create_setting", "update_category", "update_client", "update_project",
   "update_testimonial", "update_setting", "delete_category", "delete_client",
   "delete_project", "delete_testimonial", "set_admin", "seed_data"}

(* One document, data under a new id, was added to the collection *)
Added(old, new, data) ==
  \E d \in new : d \notin old /\ new = old \cup {d} /\ Without(d, "_id") = data

(* The document doc_id of the collection carries the fields of payload *)
Carries(new, doc_id, payload) ==
  \E d \in new : d["_id"] = doc_id /\ \A k \in DOMAIN payload : d[k] = payload[k]

Seeded(new, items, fields) ==
  \A i \in 1..Len(items) : KeyOf(items[i], fields) \in Keys(new, fields)

UpdateDone(new, doc_id, payload) ==
  /\ resp'.status \in {200, 404}
  /\ resp'.status = 200 => Carries(new, doc_id, payload)

DeleteDone(new, doc_id) ==
  /\ resp'.status \in {200, 404}
  /\ doc_id \notin Ids(new)

(* The gate in front of an admin-only request made with header h: the     *)
(* response and the store after the request, and what the request of a     *)
(* verified admin performs.                                                *)
Gate(h, performed) ==
  /\ NoBearer(h) => resp'.status = 401 /\ UNCHANGED store
  /\ NonAdmin(h) => resp'.status = 403 /\ UNCHANGED store
  /\ AdminOK(h) => resp'.status \notin {401, 403} /\ performed

(* Below, "Gate(h, ...) \/ ~request" reads "request => Gate(h, ...)".      *)
CreateGate ==
  /\ resp'.op = "create_category" =>
       \A h \in Headers, p \in CategoryInputs :
         Gate(h, resp'.status = 200 /\ Added(category, category', p))
           \/ ~create_category(h, p)
  /\ resp'.op = "create_client" =>
       \A h \in Headers, p \in ClientInputs :
         Gate(h, resp'.status = 200 /\ Added(client, client', p))
           \/ ~create_client(h, p)
  /\ resp'.op = "create_project" =>
       \A h \in Headers, p \in ProjectInputs :
         Gate(h, resp'.status = 200 /\ Added(project, project', p))
           \/ ~create_project(h, p)
  /\ resp'.op = "create_testimonial" =>
       \A h \in Headers, p \in TestimonialInputs :
         Gate(h, /\ resp'.status = 200
                 /\ Added(testimonial, testimonial',
                       [p EXCEPT !.status =
                          IF p.status = None THEN "approved"
                          ELSE p.status]))
           \/ ~create_testimonial(h, p)
  /\ resp'.op = "create_setting" =>
       \A h \in Headers, p \in SettingInputs :
         Gate(h, resp'.status = 200 /\ Added(setting, setting', p))
           \/ ~create_setting(h, p)

UpdateGate ==
  /\ resp'.op = "update_category" =>
       \A h \in Headers, id \in DocIds, p \in CategoryPatches :
         Gate(h, UpdateDone(category', id, p))
           \/ ~update_category(h, id, p)
  /\ resp'.op = "update_client" =>
       \A h \in Headers, id \in DocIds, p \in ClientPatches :
         Gate(h, UpdateDone(client', id, p))
           \/ ~update_client(h, id, p)
  /\ resp'.op = "update_project" =>
       \A h \in Headers, id \in DocIds, p \in ProjectPatches :
         Gate(h, UpdateDone(project', id, p))
           \/ ~update_project(h, id, p)
  /\ resp'.op = "update_testimonial" =>
       \A h \in Headers, id \in DocIds, p \in TestimonialPatches :
         Gate(h, UpdateDone(testimonial', id, p))
           \/ ~update_testimonial(h, id, p)
  /\ resp'.op = "update_setting" =>
       \A h \in Headers, id \in DocIds, p \in SettingPatches :
         Gate(h, UpdateDone(setting', id, p))
           \/ ~update_setting(h, id, p)

DeleteGate ==
  /\ resp'.op = "delete_category" =>
       \A h \in Headers, id \in DocIds :
         Gate(h, DeleteDone(category', id))
           \/ ~delete_category(h, id)
  /\ resp'.op = "delete_client" =>
       \A h \in Headers, id \in DocIds :
         Gate(h, DeleteDone(client', id))
           \/ ~delete_client(h, id)
  /\ resp'.op = "delete_project" =>
       \A h \in Headers, id \in DocIds :
         Gate(h, DeleteDone(project', id))
           \/ ~delete_project(h, id)
  /\ resp'.op = "delete_testimonial" =>
       \A h \in Headers, id \in DocIds :
         Gate(h, DeleteDone(testimonial', id))
           \/ ~delete_testimonial(h, id)

UsersAndSeedGate ==
  /\ resp'.op = "set_admin" =>
       \A h \in Headers, id \in GateUserIds, S \in FlagSets :
         \A payload \in [S -> BOOLEAN] :
           Gate(h, /\ resp'.status \in {200, 400, 404}
                   /\ resp'.status = 200 => Carries(user', id, payload))
             \/ ~set_admin(h, id, payload)
  /\ resp'.op = "seed_data" =>
       \A h \in Headers :
         Gate(h, /\ resp'.status = 200
                 /\ Seeded(category', cat_items, {"key"})
                 /\ Seeded(client', client_items, {"name"})
                 /\ Seeded(testimonial', testimonial_items, {"name", "company"})
                 /\ Seeded(setting', <<ui_setting>>, {"key"}))
           \/ ~seed_data(h)

(* An admin-only request made with header h *)
AdminRequest(h) ==
  \/ /\ resp'.op = "create_category"
     /\ \E p \in CategoryInputs : create_category(h, p)
  \/ /\ resp'.op = "create_client"
     /\ \E p \in ClientInputs : create_client(h, p)
  \/ /\ resp'.op = "create_project"
     /\ \E p \in ProjectInputs : create_project(h, p)
  \/ /\ resp'.op = "create_testimonial"
     /\ \E p \in TestimonialInputs : create_testimonial(h, p)
  \/ /\ resp'.op = "create_setting"
     /\ \E p \in SettingInputs : create_setting(h, p)
  \/ /\ resp'.op = "update_category"
     /\ \E id \in DocIds, p \in CategoryPatches : update_category(h, id, p)
  \/ /\ resp'.op = "update_client"
     /\ \E id \in DocIds, p \in ClientPatches : update_client(h, id, p)
  \/ /\ resp'.op = "update_project"
     /\ \E id \in DocIds, p \in ProjectPatches : update_project(h, id, p)
  \/ /\ resp'.op = "update_testimonial"
     /\ \E id \in DocIds, p \in TestimonialPatches :
          update_testimonial(h, id, p)
  \/ /\ resp'.op = "update_setting"
     /\ \E id \in DocIds, p \in SettingPatches : update_setting(h, id, p)
  \/ /\ resp'.op = "delete_category"
     /\ \E id \in DocIds : delete_category(h, id)
  \/ /\ resp'.op = "delete_client"
     /\ \E id \in DocIds : delete_client(h, id)
  \/ /\ resp'.op = "delete_project"
     /\ \E id \in DocIds : delete_project(h, id)
  \/ /\ resp'.op = "delete_testimonial"
     /\ \E id \in DocIds : delete_testimonial(h, id)
  \/ /\ resp'.op = "set_admin"
     /\ \E id \in GateUserIds, S \in FlagSets :
          \E payload \in [S -> BOOLEAN] : set_admin(h, id, payload)
  \/ /\ resp'.op = "seed_data"
     /\ seed_data(h)

(* The flags a session row carries are those of a verified admin *)
CopiedAdmin(s) == s.is_admin /\ s.is_verified

(* C12: the admin gate reads is_admin and is_verified from the user row as *)
(* it is when the request is handled, never from the copy the session row  *)
(* took at login.  An admin-only request with the token of a session whose *)
(* user row is not both is_admin and is_verified fails with 403 and        *)
(* changes nothing, also when the session row says verified admin (the     *)
(* user was demoted after logging in); with the token of a session whose   *)
(* user row is both it passes the gate, also when the session row says     *)
(* otherwise (the user was promoted after logging in).                     *)
C12_GateReadsUserRow ==
  [][\A h \in Headers : \A s \in session : \A u \in user :
       BearerToken(h, s.token) /\ u["_id"] = s.user_id /\ AdminRequest(h) =>
         IF u.is_admin /\ u.is_verified
           THEN resp'.status \notin {401, 403}
           ELSE resp'.status = 403 /\ UNCHANGED store]_vars

(* Demoted after login: every session row says verified admin, the user    *)
(* row does not, and the request was refused.                              *)
C12_Witness ==
  /\ resp.op \in AdminOps
  /\ resp.status = 403
  /\ session # {}
  /\ \A s \in session : CopiedAdmin(s)
  /\ \A u \in user : ~(u.is_admin /\ u.is_verified)

(* Promoted after login: no session row says verified admin, the user row  *)
(* does, and the request went through.                                     *)
C12_PromotedPasses ==
  /\ resp.op \in AdminOps
  /\ resp.status = 200
  /\ session # {}
  /\ \A s \in session : ~CopiedAdmin(s)
  /\ \A u \in user : u.is_admin /\ u.is_verified

(* C1: every admin-only create, update and delete endpoint, verify-admin   *)
(* and seed: without a bearer token the request fails with 401 and the     *)
(* store is unchanged; with the token of a user who is not both is_admin   *)
(* and is_verified it fails with 403 and the store is unchanged; with the  *)
(* token of a verified admin it passes the gate and the operation is       *)
(* performed.                                                              *)
C1_AdminGate ==
  [][CreateGate /\ UpdateGate /\ DeleteGate /\ UsersAndSeedGate]_vars

C1_Witness ==
  /\ resp.op \in AdminOps
  /\ resp.status = 403
  /\ \E u \in user : u.is_admin /\ ~u.is_verified
  /\ category # {}

UpdateOps ==
  {"update_category", "update_client", "update_project", "update_testimonial",
   "update_setting"}

(* C7: a PATCH by a verified admin with an id that matches no row of the   *)
(* collection answers 404 and leaves every collection unchanged.           *)
C7_UpdateMissingId ==
  [][/\ resp'.op = "update_category" =>
          \A h \in Headers, id \in DocIds, p \in CategoryPatches :
            AdminOK(h) /\ id \notin Ids(category) =>
              \/ resp'.status = 404 /\ UNCHANGED store
              \/ ~update_category(h, id, p)
     /\ resp'.op = "update_client" =>
          \A h \in Headers, id \in DocIds, p \in ClientPatches :
            AdminOK(h) /\ id \notin Ids(client) =>
              \/ resp'.status = 404 /\ UNCHANGED store
              \/ ~update_client(h, id, p)
     /\ resp'.op = "update_project" =>
          \A h \in Headers, id \in DocIds, p \in ProjectPatches :
            AdminOK(h) /\ id \notin Ids(project) =>
              \/ resp'.status = 404 /\ UNCHANGED store
              \/ ~update_project(h, id, p)
     /\ resp'.op = "update_testimonial" =>
          \A h \in Headers, id \in DocIds, p \in TestimonialPatches :
            AdminOK(h) /\ id \notin Ids(testimonial) =>
              \/ resp'.status = 404 /\ UNCHANGED store
              \/ ~update_testimonial(h, id, p)
     /\ resp'.op = "update_setting" =>
          \A h \in Headers, id \in DocIds, p \in SettingPatches :
            AdminOK(h) /\ id \notin Ids(setting) =>
              \/ resp'.status = 404 /\ UNCHANGED store
              \/ ~update_setting(h, id, p)]_vars

C7_Witness ==
  /\ resp.op \in UpdateOps
  /\ resp.status = 404
  /\ TotalDocs > 0

(* The testimonials a listing shows: all of them or the approved ones,     *)
(* of company c when a company is asked for, each with "_id" as "id".      *)
View(c, all) ==
  {serialize(d) :
     d \in {t \in testimonial :
              /\ all \/ t.status = "approved"
              /\ c = None \/ t.company = c}}

(* C2: GET /api/testimonials without include_all, with or without a        *)
(* company filter and whatever the token, returns approved rows only: the  *)
(* approved rows of the store that match the filter.                       *)
C2_DefaultListApprovedOnly ==
  [][resp'.op = "list_testimonials" =>
       \A h \in Headers, c \in Companies :
         \/ /\ \A d \in resp'.body : d.status = "approved"
            /\ resp'.body = View(c, FALSE)
         \/ ~list_testimonials(h, c, FALSE)]_vars

C2_Witness ==
  /\ resp.op = "list_testimonials"
  /\ resp.body # {}
  /\ \A d \in resp.body : d.status = "approved"
  /\ \E d \in testimonial : d.status = "pending" /\ d.company = "VoltPay"
  /\ \E d \in resp.body : d.company = "VoltPay"

(* C3: with include_all a verified admin is shown the rows of every status *)
(* that match the company filter; any other caller (no token, unknown      *)
(* token, token of a non-admin or unverified user) is answered 200 with    *)
(* the approved-only listing of the same request.                          *)
C3_IncludeAllAdminOnly ==
  [][resp'.op = "list_testimonials" =>
       \A h \in Headers, c \in Companies :
         \/ /\ resp'.status = 200
            /\ resp'.body = View(c, AdminOK(h))
         \/ ~list_testimonials(h, c, TRUE)]_vars

C3_Witness ==
  /\ resp.op = "list_testimonials"
  /\ \E d \in resp.body : d.status = "pending"
  /\ \E d \in resp.body : d.status = "approved"

(* The document a submission stored *)
Stored(d) == d \in testimonial' /\ d \notin testimonial

(* C4: an accepted public submission stores one row with status "pending"  *)
(* and reports status "pending", whatever the payload carries.             *)
C4_SubmitPending ==
  [][resp'.op = "submit_testimonial" /\ resp'.status = 200 =>
       /\ \E d \in testimonial' : Stored(d) /\ testimonial' = testimonial \cup {d}
       /\ \A d \in testimonial' :
            Stored(d) =>
              /\ d.status = "pending"
              /\ resp'.body = {[id |-> d["_id"], status |-> "pending"]}]_vars

C4_Witness ==
  /\ resp.op = "submit_testimonial"
  /\ resp.status = 200
  /\ Cardinality(testimonial) = MaxDocs
  /\ \A d \in testimonial : d.status = "pending"

(* The rating the claim says is stored for a submitted rating *)
ClaimedRating(v) ==
  IF v.t = "int"
    THEN (IF v.i > 5 THEN 5 ELSE IF v.i < 0 THEN 0 ELSE v.i)
    ELSE 5

(* C5: every rating submitted publicly is stored as an integer of 0..5:    *)
(* above 5 as 5, below 0 as 0, in range unchanged, omitted as 5, and a     *)
(* non-numeric rating is accepted and stored as 5.                         *)
C5_SubmitRatingStored ==
  [][resp'.op = "submit_testimonial" =>
       \A p \in SubmitInputs :
         \/ /\ resp'.status = 200
            /\ \E d \in testimonial' :
                 Stored(d) /\ d.rating = ClaimedRating(p.rating)
         \/ ~submit_testimonial(p)]_vars

(* Seed leaves every row that existed as it was *)
SeedKeepsRows ==
  /\ category \subseteq category'
  /\ client \subseteq client'
  /\ testimonial \subseteq testimonial'
  /\ setting \subseteq setting'

(* The request handled just before was a seed run by a verified admin *)
JustSeeded == resp.op = "seed_data" /\ resp.status = 200

(* C8: seed is idempotent: a seed run right after a seed run creates no    *)
(* row and leaves the category, client, testimonial and setting            *)
(* collections as the first run left them; and seed never modifies or      *)
(* deletes a row that already existed.                                     *)
C8_SeedIdempotent ==
  [][resp'.op = "seed_data" =>
       \A h \in Headers :
         \/ /\ SeedKeepsRows
            /\ JustSeeded => UNCHANGED <<category, client, testimonial, setting>>
         \/ ~seed_data(h)]_vars

C8_Witness ==
  /\ JustSeeded
  /\ Cardinality(client) = Len(client_items)
  /\ \E c \in client : c.name = "VoltPay" /\ c.description = None
  /\ \E c \in category : c.key = "photo"

(* C9: no two category rows have the same key *)
C9_UniqueCategoryKey ==
  \A c1, c2 \in category : c1.key = c2.key => c1 = c2

====
